---- MODULE Spec2Model ----
(***************************************************************************)
(* stocksim-backend: the order handlers (buy_stock, sell_stock) over the   *)
(* MongoDB collections accounts, holdings and transactions, the price      *)
(* cache of finnhub.rs, the login callback of auth.rs and the valuation    *)
(* of handlers/portfolio.rs.                                               *)
(*                                                                         *)
(* Every await of a handler is one step: other requests, the clock and     *)
(* readers may run between two steps.  The store operations of db.rs are   *)
(* issued on the collections without the ClientSession the handler opened, *)
(* so each write takes effect in the store at its own step.                *)
(***************************************************************************)
EXTENDS Integers, Sequences, FiniteSets, TLC

VARIABLES
    accounts,      \* collection "accounts": sequence of Account documents
    holdings,      \* collection "holdings": sequence of Holding documents
    transactions,  \* collection "transactions": sequence of Transaction documents
    req,           \* per request: position in the handler and its locals
    now,           \* the wall clock (chrono::Local::now)
    uuids,         \* how many uuid::Uuid::new_v4 values were drawn
    orders,        \* how many order requests were accepted so far
    faultsLeft,    \* how many store operations may still fail
    effects,       \* per request: which ledger writes of its order are applied
    pre,           \* per request: the ledger when the request arrived
    readVer,       \* per request: accountWrites when it read the account
    stale,         \* per request: it wrote the account row over a newer one
    accountWrites, \* how many updates of the account row were applied
    broken,        \* some order stopped with some but not all of its writes
    unlogged,      \* cash changes written by orders that stopped before their log record
    observed,      \* what the last reader saw of the orders in progress
    cache,         \* finnhub.rs CACHE: per symbol the quote and its Instant
    cacheLock,     \* the lookup that holds the CACHE mutex, "" when it is free
    instant,       \* the monotonic clock (Instant::now), in seconds
    ticks,         \* how many times the monotonic clock advanced
    lookup,        \* per price lookup: position in fetch_stock_price, locals
    lookups,       \* how many price lookups were started
    upstreamCalls, \* per symbol: how many quote requests were sent upstream
    stores,        \* per symbol: how many quotes were inserted in the cache
    login,         \* per login callback: position in handle_google_callback
    logins,        \* how many login callbacks were started
    val            \* per valuation: position in get_portfolio and its locals

tradeVars == <<accounts, holdings, transactions, req, now, uuids, orders,
               faultsLeft, effects, pre, readVer, stale, accountWrites, broken,
               unlogged, observed>>
cacheVars == <<cache, cacheLock, instant, ticks, lookup, lookups, upstreamCalls,
               stores>>
loginVars == <<login, logins>>
valVars == <<val>>

\* what the order handlers leave alone
beside == <<cacheVars, loginVars, valVars>>

vars == <<tradeVars, cacheVars, loginVars, valVars>>

----------------------------------------------------------------------------
(* Bounds of the model.                                                    *)

MaxOrders == 3
MaxFaults == 1
MaxClock == 1
InitCash == 4
MaxLookups == 3
MaxTicks == 2
MaxLogins == 3

Requests == {"r1", "r2"}
First == "r1"
User == "u1"
SessionEmails == {"", User}
Symbols == {"AAPL"}
\* quote.c of the upstream answer, in tenths of a cent
QuoteMillis == {10, 15, 20}
Quantities == {-1, 0, 1, 2}

----------------------------------------------------------------------------
(* i32 arithmetic (release build: two's complement wrap-around), written   *)
(* so that no intermediate value leaves the 32-bit range.                  *)

MaxI32 == 2147483647
MinI32 == -2147483647 - 1

AddI32(a, b) ==
    IF b >= 0
    THEN IF a > MaxI32 - b THEN (a - MaxI32) + (b - 1) + MinI32 ELSE a + b
    ELSE IF a < MinI32 - b THEN (a - MinI32) + (b + 1) + MaxI32 ELSE a + b

NegI32(a) == IF a = MinI32 THEN MinI32 ELSE -a

SubI32(a, b) ==
    IF b = MinI32 THEN AddI32(AddI32(a, MaxI32), 1) ELSE AddI32(a, -b)

RECURSIVE MulNat(_, _)
MulNat(a, n) ==
    IF n = 0 THEN 0
    ELSE LET h == MulNat(a, n \div 2)
             d == AddI32(h, h)
         IN  IF n % 2 = 1 THEN AddI32(d, a) ELSE d

MulI32(a, b) ==
    IF b >= 0 THEN MulNat(a, b)
    ELSE IF b = MinI32 THEN (IF a % 2 = 0 THEN 0 ELSE MinI32)
    ELSE NegI32(MulNat(a, -b))

\* i32 `/`: the quotient truncated toward zero (b # 0)
DivI32(a, b) ==
    LET abs(x) == IF x < 0 THEN -x ELSE x
        q == abs(a) \div abs(b)
    IN  IF (a < 0) = (b < 0) THEN q ELSE -q

\* (price.c * 100.0) as i32: truncated toward zero, saturating
ToCents(millis) ==
    LET t == DivI32(millis, 10)
    IN  IF t > MaxI32 THEN MaxI32 ELSE IF t < MinI32 THEN MinI32 ELSE t

----------------------------------------------------------------------------
(* Documents.                                                              *)

\* Account::default() / Holding::default() / Transaction::default()
NoAccount == [id |-> "", value |-> 0, cash |-> 0, change |-> 0]
NoHolding == [account_id |-> "", stock_symbol |-> "", stock_name |-> "",
              quantity |-> 0, purchase_price |-> 0, total_value |-> 0,
              current_price |-> 0]
NoTransaction == [id |-> 0, account_id |-> "", stock_symbol |-> "",
                  transaction_type |-> "", quantity |-> 0, price |-> 0,
                  timestamp |-> 0]

\* the name fetch_stock_profile answers for a symbol
ProfileName(symbol) == "Apple Inc"

----------------------------------------------------------------------------
(* db.rs: the operations of DatabasePool.  find_one, update_one and        *)
(* delete_one act on the first document that matches the filter.           *)

\* the first of the positions S, 0 when there is none
FirstIndex(S) ==
    IF S = {} THEN 0 ELSE CHOOSE i \in S : \A j \in S : i <= j

HoldingKey(account_id, stock_symbol, h) ==
    h.account_id = account_id /\ h.stock_symbol = stock_symbol

\* the document find_one / update_one / delete_one picks
AccountIndex(rows, account_id) ==
    FirstIndex({i \in 1..Len(rows) : rows[i].id = account_id})

HoldingIndex(rows, account_id, stock_symbol) ==
    FirstIndex({i \in 1..Len(rows) :
                    HoldingKey(account_id, stock_symbol, rows[i])})

RemoveAt(rows, i) ==
    [j \in 1..(Len(rows) - 1) |-> IF j < i THEN rows[j] ELSE rows[j + 1]]

get_account(rows, account_id) ==
    LET i == AccountIndex(rows, account_id)
    IN  IF i = 0 THEN NoAccount ELSE rows[i]

has_account(rows, account_id) == AccountIndex(rows, account_id) # 0

update_account(rows, account_id, new_value, new_cash) ==
    LET i == AccountIndex(rows, account_id)
    IN  IF i = 0 THEN rows
        ELSE [rows EXCEPT ![i].value = new_value, ![i].cash = new_cash]

add_holding(rows, holding) == Append(rows, holding)

has_holding(rows, account_id, stock_symbol) ==
    HoldingIndex(rows, account_id, stock_symbol) # 0

get_holding(rows, account_id, stock_symbol) ==
    LET i == HoldingIndex(rows, account_id, stock_symbol)
    IN  IF i = 0 THEN NoHolding ELSE rows[i]

update_holding(rows, account_id, stock_symbol, quantity, purchase_price) ==
    LET i == HoldingIndex(rows, account_id, stock_symbol)
    IN  IF i = 0 THEN rows
        ELSE [rows EXCEPT ![i].quantity = quantity,
                          ![i].purchase_price = purchase_price]

delete_holding(rows, account_id, stock_symbol) ==
    LET i == HoldingIndex(rows, account_id, stock_symbol)
    IN  IF i = 0 THEN rows ELSE RemoveAt(rows, i)

add_transaction_Upsert(rows, transaction) ==
    IF rows = <<>> THEN <<transaction>>
    ELSE [rows EXCEPT ![Len(rows)] = transaction]

add_transaction(rows, transaction) == Append(rows, transaction)

----------------------------------------------------------------------------
(* The handlers' locals and answers.                                       *)

Sides == {"BUY", "SELL"}
AllEffects == {"cash", "holding", "txn"}

UnauthorizedMsg == "Unauthorized access"
TradeErrorMsg == "Error completing trade"
NotEnoughCashMsg == "You don't have enough cash to complete this trade."
NotEnoughSharesMsg == "You cannot sell more shares than you own."

IdleReq ==
    [pc |-> "idle", s |-> "", side |-> "", stock_symbol |-> "", quantity |-> 0,
     stock_price |-> 0, stock_name |-> "", total |-> 0,
     loads |-> 0, cash_read |-> 0, account |-> NoAccount,
     held |-> FALSE, holding |-> NoHolding, current_quantity |-> 0,
     new_quantity |-> 0, new_price |-> 0,
     txn |-> "none", outcome |-> "none", status |-> 0, msg |-> "",
     transaction |-> NoTransaction]

\* return Err((status, Json(msg))), after abort_transaction when one is open
Reject(q, status, msg) ==
    [q EXCEPT !.pc = "done", !.outcome = "Rejected", !.status = status,
              !.msg = msg,
              !.txn = IF q.txn = "open" THEN "aborted" ELSE q.txn]

\* an unwrap() of an Err or a None, or a division by zero: the task dies,
\* nothing is answered, the ClientSession is dropped
Panic(q) ==
    [q EXCEPT !.pc = "done", !.outcome = "Panicked",
              !.txn = IF q.txn = "open" THEN "dropped" ELSE q.txn]

Active(r) == req[r].pc \notin {"idle", "done"}

Ledger == [accounts |-> accounts, holdings |-> holdings,
           transactions |-> transactions]

\* the outcomes of one store operation
StoreOutcomes == IF faultsLeft > 0 THEN {TRUE, FALSE} ELSE {TRUE}

\* the bookkeeping every step of request r ends with
Stopped(r) ==
    /\ broken' = (broken \/ (req'[r].pc = "done" /\ effects'[r] \notin {{}, AllEffects}))
    /\ unlogged' = IF /\ req'[r].pc = "done"
                      /\ "cash" \in effects'[r] /\ "txn" \notin effects'[r]
                   THEN unlogged + (IF req'[r].side = "BUY" THEN -req'[r].total
                                                            ELSE req'[r].total)
                   ELSE unlogged

----------------------------------------------------------------------------
(* trading.rs: the comparisons and the arithmetic of the two handlers.     *)

\* (mutant) the comparison off by one cent
NotEnoughCash_OffByOne(cash, total_cost) == cash + 1 < total_cost

\* buy_stock: account.cash < total_cost
NotEnoughCash(cash, total_cost) == cash < total_cost

\* (mutant) the cost added to the cash
BuyCash_Credit(cash, total_cost) == AddI32(cash, total_cost)

\* buy_stock: account.cash -= total_cost
BuyCash(cash, total_cost) == SubI32(cash, total_cost)

\* (mutant) the comparison off by one share
NotEnoughShares_OffByOne(current_quantity, quantity) ==
    current_quantity + 1 < quantity

\* sell_stock: current_quantity < trade.quantity
NotEnoughShares(current_quantity, quantity) == current_quantity < quantity

\* (mutant) the proceeds taken from the cash
SellCash_Debit(cash, total_value) == SubI32(cash, total_value)

\* sell_stock: account.cash += total_value
SellCash(cash, total_value) == AddI32(cash, total_value)

\* sell_stock: current_quantity - trade.quantity
SellNewQuantity(current_quantity, quantity) == SubI32(current_quantity, quantity)

\* (mutant) the row deleted while a share is left
SellDeletes_AtOne(new_quantity) == new_quantity <= 1

\* sell_stock: new_quantity == 0
SellDeletes(new_quantity) == new_quantity = 0

\* (mutant) the sell price written as the purchase price
SellNewPrice_SellPrice(purchase_price, stock_price) == stock_price

\* sell_stock: the price update_holding is given, holding.purchase_price
SellNewPrice(purchase_price, stock_price) == purchase_price

\* buy_stock: holding.quantity + trade.quantity
BuyNewQuantity(held_quantity, quantity) == AddI32(held_quantity, quantity)

\* (mutant) the price of the last buy instead of the average
BuyNewPrice_LastPrice(purchase_price, held_quantity, stock_price, quantity) ==
    stock_price

\* buy_stock: the weighted average purchase price (divisor # 0)
BuyNewPrice(purchase_price, held_quantity, stock_price, quantity) ==
    DivI32(AddI32(MulI32(purchase_price, held_quantity),
                  MulI32(stock_price, quantity)),
           AddI32(held_quantity, quantity))

MakeTransaction_TotalPrice(q, id, timestamp) ==
    [id |-> id, account_id |-> q.s, stock_symbol |-> q.stock_symbol,
     transaction_type |-> q.side, quantity |-> q.quantity,
     price |-> q.total, timestamp |-> timestamp]

\* the record both handlers build, with the clock read at that moment
MakeTransaction(q, id, timestamp) ==
    [id |-> id, account_id |-> q.s, stock_symbol |-> q.stock_symbol,
     transaction_type |-> q.side, quantity |-> q.quantity,
     price |-> q.stock_price, timestamp |-> timestamp]

----------------------------------------------------------------------------
(* finnhub.rs: the price cache and the answers of the upstream.            *)

\* Duration::from_secs(300): how long a cached quote is served
PriceTTL == 300

CacheSymbols == {"AAPL", "MSFT"}
LookupIds == {"k1", "k2"}
\* the steps by which the monotonic clock advances, in seconds
TickSteps == {1, 299}
\* quote.c of an upstream answer, in tenths of a cent
UpstreamMillis == {0, 10, 20}

\* FinnhubQuote: current price, day change, day change percent, previous close
MakeQuote(c) == [c |-> c, d |-> c - 15, dp |-> 0, pc |-> 15]
NoQuote == [c |-> 0, d |-> 0, dp |-> 0, pc |-> 0]

\* what the upstream answers to one request: send() fails, the status is no
\* success, the body does not parse, or a quote arrives
UpstreamAnswers ==
    {[kind |-> k, quote |-> NoQuote] : k \in {"transport", "status", "parse"}}
    \cup {[kind |-> "quote", quote |-> MakeQuote(c)] : c \in UpstreamMillis}

\* an entry of the HashMap, and a key with no entry
NoEntry == [present |-> FALSE, quote |-> NoQuote, timestamp |-> 0]

\* (mutant) the entry stored without the time of the call
Entry_NoTime(quote, timestamp) ==
    [present |-> TRUE, quote |-> quote, timestamp |-> 0]

Entry(quote, timestamp) ==
    [present |-> TRUE, quote |-> quote, timestamp |-> timestamp]

\* Result<FinnhubQuote, String>
OkQuote(quote) == [ok |-> TRUE, quote |-> quote]
ErrQuote == [ok |-> FALSE, quote |-> NoQuote]

\* (mutant) a lock that never makes a task wait
MutexFree_Always(owner) == TRUE

\* tokio::sync::Mutex: lock() is granted when no task holds the guard
MutexFree(owner) == owner = ""

\* Instant::duration_since: zero when the other instant is later
DurationSince(later, earlier) == IF later >= earlier THEN later - earlier ELSE 0

\* (mutant) an entry of exactly the TTL still served
StillValid_Inclusive(at, timestamp) == DurationSince(at, timestamp) <= PriceTTL

\* now.duration_since(*timestamp) < Duration::from_secs(300)
StillValid(at, timestamp) == DurationSince(at, timestamp) < PriceTTL

\* (mutant) only a negative price refused
InvalidPrice_Negative(c) == c < 0

\* quote.c <= 0.0
InvalidPrice(c) == c <= 0

\* (mutant) an expired entry served when the upstream fails
UpstreamFailed_Stale(seen) ==
    IF seen.present THEN OkQuote(seen.quote) ELSE ErrQuote

\* the `?` after send() and json(), and the Err of a bad status or price:
\* whatever the cache holds, the lookup answers the error
UpstreamFailed(seen) == ErrQuote

----------------------------------------------------------------------------
(* auth.rs: the login callback.                                            *)

\* cash: 100000_00, value: 100000_00
StartingCash == 10000000

LoginIds == {"l1", "l2"}
\* the identities Google answers: one that has an account, one that has none
LoginEmails == {User, "u2"}

IdleLogin == [pc |-> "idle", email |-> "", account |-> NoAccount,
              outcome |-> "none"]

\* the account the callback inserts for a new identity
NewAccount(email) ==
    [id |-> email, value |-> StartingCash, cash |-> StartingCash, change |-> 0]

add_account(rows, account) == Append(rows, account)

----------------------------------------------------------------------------
(* handlers/portfolio.rs: get_portfolio over the tables accounts and       *)
(* holdings (the rows the order handlers write).                           *)

\* the quantities of the orders that run between valuations
ValQuantities == {0, 2}

\* the quotes a valuation meets
ValQuotes == {MakeQuote(c) : c \in QuoteMillis}

\* SELECT ... FROM holdings WHERE account_id = ?, as HoldingResponse rows
RECURSIVE select_holdings(_, _)
select_holdings(rows, account_id) ==
    IF rows = <<>> THEN <<>>
    ELSE LET h == Head(rows)
             rest == select_holdings(Tail(rows), account_id)
         IN  IF h.account_id = account_id
             THEN <<[stock_symbol |-> h.stock_symbol,
                     stock_name |-> h.stock_name,
                     quantity |-> h.quantity,
                     purchase_price |-> h.purchase_price,
                     current_price |-> 0, total_value |-> 0,
                     day_change |-> 0, day_change_percent |-> 0]>> \o rest
             ELSE rest

\* (mutant) the value written without the cash
ValuationValue_NoCash(cash, sum_of_total_values) == sum_of_total_values

\* value = cash + ?
ValuationValue(cash, sum_of_total_values) == cash + sum_of_total_values

\* UPDATE accounts SET value = cash + ? WHERE id = ?
set_value(rows, account_id, sum_of_total_values) ==
    [i \in 1..Len(rows) |->
        IF rows[i].id = account_id
        THEN [rows[i] EXCEPT !.value = ValuationValue(rows[i].cash,
                                                    sum_of_total_values)]
        ELSE rows[i]]

IdleVal ==
    [pc |-> "idle", s |-> "", seq |-> 0, rows |-> <<>>, i |-> 1,
     updated_holdings |-> <<>>, sum_of_total_values |-> 0,
     price_failed |-> FALSE, status |-> 0, response |-> <<>>,
     pre |-> [accounts |-> <<>>, holdings |-> <<>>, transactions |-> <<>>]]

\* return Err((status, Json(..))): no holdings are answered
ValError(v, status) ==
    [v EXCEPT !.pc = "done", !.status = status, !.response = <<>>]

\* the loop goes on to the next holding, or to the UPDATE after the last
ValAdvance(v) ==
    [v EXCEPT !.i = @ + 1,
              !.pc = IF v.i >= Len(v.rows) THEN "update" ELSE "price"]

\* (mutant) a holding whose price lookup failed is skipped
ValPriceFailed_Skip(v) == ValAdvance([v EXCEPT !.price_failed = TRUE])

\* Err(e) of fetch_stock_price: return the 500
ValPriceFailed(v) == ValError([v EXCEPT !.price_failed = TRUE], 500)

IdleLookup ==
    [pc |-> "idle", symbol |-> "", at |-> 0, seen |-> NoEntry,
     fetched |-> FALSE, answer |-> "none", result |-> ErrQuote,
     after |-> NoEntry, overlap |-> FALSE]

----------------------------------------------------------------------------
(* The initial states: one account, created with InitCash, that either    *)
(* has not traded yet or has bought two shares at one cent each.           *)

FirstBuy ==
    [IdleReq EXCEPT !.s = User, !.side = "BUY", !.stock_symbol = "AAPL",
                    !.quantity = 2, !.stock_price = 1,
                    !.stock_name = ProfileName("AAPL")]

Fresh ==
    /\ accounts = <<[id |-> User, value |-> InitCash, cash |-> InitCash,
                     change |-> 0]>>
    /\ holdings = <<>>
    /\ transactions = <<>>
    /\ uuids = 0
    /\ accountWrites = 0

Invested ==
    /\ accounts = <<[id |-> User, value |-> InitCash,
                     cash |-> BuyCash(InitCash,
                                      MulI32(FirstBuy.stock_price, FirstBuy.quantity)),
                     change |-> 0]>>
    /\ holdings = <<[account_id |-> User, stock_symbol |-> "AAPL",
                     stock_name |-> ProfileName("AAPL"),
                     quantity |-> FirstBuy.quantity,
                     purchase_price |-> FirstBuy.stock_price,
                     total_value |-> MulI32(FirstBuy.stock_price, FirstBuy.quantity),
                     current_price |-> FirstBuy.stock_price]>>
    /\ transactions = <<MakeTransaction(FirstBuy, 1, 0)>>
    /\ uuids = 1
    /\ accountWrites = 1

Quiet ==
    /\ req = [r \in Requests |-> IdleReq]
    /\ now = 0
    /\ orders = 0
    /\ faultsLeft = MaxFaults
    /\ effects = [r \in Requests |-> {}]
    /\ pre = [r \in Requests |-> [accounts |-> <<>>, holdings |-> <<>>,
                                  transactions |-> <<>>]]
    /\ readVer = [r \in Requests |-> 0]
    /\ stale = [r \in Requests |-> FALSE]
    /\ broken = FALSE
    /\ unlogged = 0
    /\ observed = [r \in Requests |-> {}]
    /\ cache = [y \in CacheSymbols |-> NoEntry]
    /\ cacheLock = ""
    /\ instant = 0
    /\ ticks = 0
    /\ lookup = [k \in LookupIds |-> IdleLookup]
    /\ lookups = 0
    /\ upstreamCalls = [y \in CacheSymbols |-> 0]
    /\ stores = [y \in CacheSymbols |-> 0]
    /\ login = [l \in LoginIds |-> IdleLogin]
    /\ logins = 0
    /\ val = IdleVal

Init == (Fresh \/ Invested) /\ Quiet

InitFresh == Fresh /\ Quiet

----------------------------------------------------------------------------
(* buy_stock / sell_stock, one action per await.                           *)

\* a POST /buy or /sell arrives; validate_session reads the session
NewOrderOf(r, max, sides, quantities) ==
    /\ req[r].pc \in {"idle", "done"}
    /\ orders < max
    /\ \E email \in SessionEmails, side \in sides, symbol \in Symbols,
          quantity \in quantities :
          LET q == [IdleReq EXCEPT !.side = side, !.stock_symbol = symbol,
                                   !.quantity = quantity]
          IN  req' = [req EXCEPT ![r] =
                        IF email = ""
                        THEN Reject(q, 401, UnauthorizedMsg)
                        ELSE [q EXCEPT !.pc = "price", !.s = email]]
    /\ orders' = orders + 1
    /\ effects' = [effects EXCEPT ![r] = {}]
    /\ pre' = [pre EXCEPT ![r] = Ledger]
    /\ readVer' = [readVer EXCEPT ![r] = 0]
    /\ stale' = [stale EXCEPT ![r] = FALSE]
    /\ UNCHANGED beside
    /\ UNCHANGED <<accounts, holdings, transactions, now, uuids, faultsLeft,
                   accountWrites, broken, unlogged, observed>>

NewOrder(r, max) == NewOrderOf(r, max, Sides, Quantities)

\* fetch_stock_price(&trade.stock_symbol), answered from the cache or by the
\* upstream with one of the given quotes; sell_stock computes total_value
FetchPriceFrom(r, quotes) ==
    /\ req[r].pc = "price"
    /\ \E ok \in BOOLEAN, c \in quotes :
          LET q == req[r]
              stock_price == ToCents(c)
          IN  req' = [req EXCEPT ![r] =
                IF ~ok THEN Reject(q, 400, TradeErrorMsg)
                ELSE IF q.side = "BUY"
                THEN [q EXCEPT !.pc = "profile", !.stock_price = stock_price]
                ELSE [q EXCEPT !.pc = "start_transaction",
                               !.stock_price = stock_price,
                               !.total = MulI32(stock_price, q.quantity)]]
    /\ UNCHANGED beside
    /\ UNCHANGED <<accounts, holdings, transactions, now, uuids, orders,
                   faultsLeft, effects, pre, readVer, stale, accountWrites,
                   broken, unlogged, observed>>

FetchPrice(r) == FetchPriceFrom(r, QuoteMillis)

\* buy_stock: fetch_stock_profile(&trade.stock_symbol), then total_cost
FetchProfile(r) ==
    /\ req[r].pc = "profile"
    /\ \E ok \in BOOLEAN :
          LET q == req[r]
          IN  req' = [req EXCEPT ![r] =
                IF ~ok THEN Reject(q, 400, TradeErrorMsg)
                ELSE [q EXCEPT !.pc = "start_transaction",
                               !.stock_name = ProfileName(q.stock_symbol),
                               !.total = MulI32(q.stock_price, q.quantity)]]
    /\ UNCHANGED beside
    /\ UNCHANGED <<accounts, holdings, transactions, now, uuids, orders,
                   faultsLeft, effects, pre, readVer, stale, accountWrites,
                   broken, unlogged, observed>>

\* pool.client.start_session(), session.start_transaction()
StartTransaction(r) ==
    /\ req[r].pc = "start_transaction"
    /\ \E ok \in StoreOutcomes :
          LET q == req[r]
          IN  /\ req' = [req EXCEPT ![r] =
                    IF ok THEN [q EXCEPT !.pc = "get_account", !.txn = "open"]
                    ELSE Reject(q, 500, TradeErrorMsg)]
              /\ faultsLeft' = IF ok THEN faultsLeft ELSE faultsLeft - 1
    /\ UNCHANGED beside
    /\ UNCHANGED <<accounts, holdings, transactions, now, uuids, orders,
                   effects, pre, readVer, stale, accountWrites, broken, unlogged,
                   observed>>

\* pool.get_account(&s) ... .unwrap().unwrap(); buy_stock then checks the
\* cash and debits its copy of the account
GetAccount(r) ==
    /\ req[r].pc = "get_account"
    /\ \E ok \in StoreOutcomes :
          LET q == req[r]
              a == get_account(accounts, q.s)
              got == [q EXCEPT !.loads = @ + 1, !.cash_read = a.cash]
          IN  /\ req' = [req EXCEPT ![r] =
                    IF ~ok \/ ~has_account(accounts, q.s) THEN Panic(q)
                    ELSE IF q.side = "SELL"
                    THEN [got EXCEPT !.pc = "sell_get_holding", !.account = a]
                    ELSE IF NotEnoughCash(a.cash, q.total)
                    THEN Reject(got, 400, NotEnoughCashMsg)
                    ELSE [got EXCEPT !.pc = "update_account",
                            !.account = [a EXCEPT !.cash = BuyCash(a.cash, q.total)]]]
              /\ faultsLeft' = IF ok THEN faultsLeft ELSE faultsLeft - 1
    /\ readVer' = [readVer EXCEPT ![r] = accountWrites]
    /\ UNCHANGED beside
    /\ UNCHANGED <<accounts, holdings, transactions, now, uuids, orders,
                   effects, pre, stale, accountWrites, observed>>
    /\ Stopped(r)

\* sell_stock: pool.get_holding(..).unwrap().unwrap().quantity, the check of
\* the quantity, account.cash += total_value
SellGetHolding(r) ==
    /\ req[r].pc = "sell_get_holding"
    /\ \E ok \in StoreOutcomes :
          LET q == req[r]
              h == get_holding(holdings, q.s, q.stock_symbol)
              got == [q EXCEPT !.held = TRUE, !.current_quantity = h.quantity]
          IN  /\ req' = [req EXCEPT ![r] =
                    IF ~ok \/ ~has_holding(holdings, q.s, q.stock_symbol)
                    THEN Panic(q)
                    ELSE IF NotEnoughShares(h.quantity, q.quantity)
                    THEN Reject(got, 400, NotEnoughSharesMsg)
                    ELSE [got EXCEPT !.pc = "update_account",
                            !.account.cash = SellCash(q.account.cash, q.total)]]
              /\ faultsLeft' = IF ok THEN faultsLeft ELSE faultsLeft - 1
    /\ UNCHANGED beside
    /\ UNCHANGED <<accounts, holdings, transactions, now, uuids, orders,
                   effects, pre, readVer, stale, accountWrites, observed>>
    /\ Stopped(r)

\* pool.update_account(&s, account.value as i64, account.cash as i64):
\* buy_stock maps a failure to a 500, sell_stock unwraps it
UpdateAccount(r) ==
    /\ req[r].pc = "update_account"
    /\ \E ok \in StoreOutcomes :
          LET q == req[r]
              new_quantity == SellNewQuantity(q.current_quantity, q.quantity)
          IN  /\ req' = [req EXCEPT ![r] =
                    IF ~ok
                    THEN (IF q.side = "BUY" THEN Reject(q, 500, TradeErrorMsg)
                          ELSE Panic(q))
                    ELSE IF q.side = "BUY" THEN [q EXCEPT !.pc = "get_holding"]
                    ELSE [q EXCEPT !.new_quantity = new_quantity,
                                   !.pc = IF SellDeletes(new_quantity)
                                          THEN "delete_holding"
                                          ELSE "reget_holding"]]
              /\ accounts' = IF ok
                             THEN update_account(accounts, q.s, q.account.value,
                                                 q.account.cash)
                             ELSE accounts
              /\ effects' = IF ok THEN [effects EXCEPT ![r] = @ \cup {"cash"}]
                            ELSE effects
              /\ accountWrites' = IF ok THEN accountWrites + 1 ELSE accountWrites
              /\ stale' = IF ok
                          THEN [stale EXCEPT ![r] = (accountWrites # readVer[r])]
                          ELSE stale
              /\ faultsLeft' = IF ok THEN faultsLeft ELSE faultsLeft - 1
    /\ UNCHANGED beside
    /\ UNCHANGED <<holdings, transactions, now, uuids, orders, pre, readVer,
                   observed>>
    /\ Stopped(r)

\* buy_stock: pool.get_holding(..).unwrap().unwrap_or_default(), then the
\* new quantity and the new average price of an existing holding
BuyGetHolding(r) ==
    /\ req[r].pc = "get_holding"
    /\ \E ok \in StoreOutcomes :
          LET q == req[r]
              h == get_holding(holdings, q.s, q.stock_symbol)
              got == [q EXCEPT !.held = has_holding(holdings, q.s, q.stock_symbol),
                               !.holding = h, !.current_quantity = h.quantity]
          IN  /\ req' = [req EXCEPT ![r] =
                    IF ~ok THEN Panic(q)
                    ELSE IF ~(h.quantity > 0)
                    THEN [got EXCEPT !.pc = "add_holding"]
                    ELSE IF BuyNewQuantity(h.quantity, q.quantity) = 0
                    THEN Panic(got)
                    ELSE [got EXCEPT
                            !.pc = "update_holding",
                            !.new_quantity = BuyNewQuantity(h.quantity, q.quantity),
                            !.new_price = BuyNewPrice(h.purchase_price, h.quantity,
                                                      q.stock_price, q.quantity)]]
              /\ faultsLeft' = IF ok THEN faultsLeft ELSE faultsLeft - 1
    /\ UNCHANGED beside
    /\ UNCHANGED <<accounts, holdings, transactions, now, uuids, orders,
                   effects, pre, readVer, stale, accountWrites, observed>>
    /\ Stopped(r)

\* buy_stock: pool.add_holding(Holding {..}).await.unwrap()
BuyAddHolding(r) ==
    /\ req[r].pc = "add_holding"
    /\ \E ok \in StoreOutcomes :
          LET q == req[r]
              holding == [account_id |-> q.s,
                          stock_symbol |-> q.stock_symbol,
                          stock_name |-> q.stock_name,
                          quantity |-> q.quantity,
                          purchase_price |-> q.stock_price,
                          total_value |-> MulI32(q.stock_price, q.quantity),
                          current_price |-> q.stock_price]
          IN  /\ req' = [req EXCEPT ![r] =
                    IF ok THEN [q EXCEPT !.pc = "add_transaction"] ELSE Panic(q)]
              /\ holdings' = IF ok THEN add_holding(holdings, holding) ELSE holdings
              /\ effects' = IF ok THEN [effects EXCEPT ![r] = @ \cup {"holding"}]
                            ELSE effects
              /\ faultsLeft' = IF ok THEN faultsLeft ELSE faultsLeft - 1
    /\ UNCHANGED beside
    /\ UNCHANGED <<accounts, transactions, now, uuids, orders, pre, readVer,
                   stale, accountWrites, observed>>
    /\ Stopped(r)

\* sell_stock: the second pool.get_holding(..).unwrap().unwrap()
SellRegetHolding(r) ==
    /\ req[r].pc = "reget_holding"
    /\ \E ok \in StoreOutcomes :
          LET q == req[r]
              h == get_holding(holdings, q.s, q.stock_symbol)
          IN  /\ req' = [req EXCEPT ![r] =
                    IF ~ok \/ ~has_holding(holdings, q.s, q.stock_symbol)
                    THEN Panic(q)
                    ELSE [q EXCEPT !.pc = "update_holding", !.holding = h,
                                   !.new_price = SellNewPrice(h.purchase_price,
                                                              q.stock_price)]]
              /\ faultsLeft' = IF ok THEN faultsLeft ELSE faultsLeft - 1
    /\ UNCHANGED beside
    /\ UNCHANGED <<accounts, holdings, transactions, now, uuids, orders,
                   effects, pre, readVer, stale, accountWrites, observed>>
    /\ Stopped(r)

\* pool.update_holding(&s, &trade.stock_symbol, new_quantity, new_price):
\* buy_stock maps a failure to a 500, sell_stock unwraps it
UpdateHolding(r) ==
    /\ req[r].pc = "update_holding"
    /\ \E ok \in StoreOutcomes :
          LET q == req[r]
          IN  /\ req' = [req EXCEPT ![r] =
                    IF ok THEN [q EXCEPT !.pc = "add_transaction"]
                    ELSE IF q.side = "BUY" THEN Reject(q, 500, TradeErrorMsg)
                    ELSE Panic(q)]
              /\ holdings' = IF ok
                             THEN update_holding(holdings, q.s, q.stock_symbol,
                                                 q.new_quantity, q.new_price)
                             ELSE holdings
              /\ effects' = IF ok THEN [effects EXCEPT ![r] = @ \cup {"holding"}]
                            ELSE effects
              /\ faultsLeft' = IF ok THEN faultsLeft ELSE faultsLeft - 1
    /\ UNCHANGED beside
    /\ UNCHANGED <<accounts, transactions, now, uuids, orders, pre, readVer,
                   stale, accountWrites, observed>>
    /\ Stopped(r)

\* sell_stock: pool.delete_holding(&s, &trade.stock_symbol).await.unwrap()
SellDeleteHolding(r) ==
    /\ req[r].pc = "delete_holding"
    /\ \E ok \in StoreOutcomes :
          LET q == req[r]
          IN  /\ req' = [req EXCEPT ![r] =
                    IF ok THEN [q EXCEPT !.pc = "add_transaction"] ELSE Panic(q)]
              /\ holdings' = IF ok
                             THEN delete_holding(holdings, q.s, q.stock_symbol)
                             ELSE holdings
              /\ effects' = IF ok THEN [effects EXCEPT ![r] = @ \cup {"holding"}]
                            ELSE effects
              /\ faultsLeft' = IF ok THEN faultsLeft ELSE faultsLeft - 1
    /\ UNCHANGED beside
    /\ UNCHANGED <<accounts, transactions, now, uuids, orders, pre, readVer,
                   stale, accountWrites, observed>>
    /\ Stopped(r)

\* uuid::Uuid::new_v4(), pool.add_transaction(Transaction {..}).await.unwrap()
AddTransaction(r) ==
    /\ req[r].pc = "add_transaction"
    /\ \E ok \in StoreOutcomes :
          LET q == req[r]
              transaction_id == uuids + 1
          IN  /\ req' = [req EXCEPT ![r] =
                    IF ok THEN [q EXCEPT !.pc = "commit",
                                         !.transaction.id = transaction_id]
                    ELSE Panic(q)]
              /\ transactions' =
                    IF ok
                    THEN add_transaction(transactions,
                                         MakeTransaction(q, transaction_id, now))
                    ELSE transactions
              /\ effects' = IF ok THEN [effects EXCEPT ![r] = @ \cup {"txn"}]
                            ELSE effects
              /\ faultsLeft' = IF ok THEN faultsLeft ELSE faultsLeft - 1
    /\ uuids' = uuids + 1
    /\ UNCHANGED beside
    /\ UNCHANGED <<accounts, holdings, now, orders, pre, readVer, stale,
                   accountWrites, observed>>
    /\ Stopped(r)

\* Ok(Transaction {..}), session.commit_transaction(), 201 CREATED.  No
\* operation ran in the session, so the commit sends nothing and succeeds.
Commit(r) ==
    /\ req[r].pc = "commit"
    /\ LET q == req[r]
       IN  req' = [req EXCEPT ![r] =
              [q EXCEPT !.pc = "done", !.outcome = "Committed", !.status = 201,
                        !.txn = "committed",
                        !.transaction = MakeTransaction(q, q.transaction.id, now)]]
    /\ UNCHANGED beside
    /\ UNCHANGED <<accounts, holdings, transactions, now, uuids, orders,
                   faultsLeft, effects, pre, readVer, stale, accountWrites,
                   broken, unlogged, observed>>

\* time passes
Tick ==
    /\ now < MaxClock
    /\ now' = now + 1
    /\ UNCHANGED beside
    /\ UNCHANGED <<accounts, holdings, transactions, req, uuids, orders,
                   faultsLeft, effects, pre, readVer, stale, accountWrites,
                   broken, unlogged, observed>>

\* GET /account: another request reads the account row and the holdings
\* while orders are in progress; it sees every write applied so far
ReadAccount ==
    /\ \E r \in Requests : Active(r)
    /\ observed' = [r \in Requests |->
                      IF Active(r) THEN effects[r] \cap {"cash", "holding"}
                      ELSE {}]
    /\ observed' # observed
    /\ UNCHANGED beside
    /\ UNCHANGED <<accounts, holdings, transactions, req, now, uuids, orders,
                   faultsLeft, effects, pre, readVer, stale, accountWrites,
                   broken, unlogged>>

\* the steps of an order after the price lookup
Trade(r) ==
    \/ FetchProfile(r)
    \/ StartTransaction(r)
    \/ GetAccount(r)
    \/ SellGetHolding(r)
    \/ UpdateAccount(r)
    \/ BuyGetHolding(r)
    \/ BuyAddHolding(r)
    \/ SellRegetHolding(r)
    \/ UpdateHolding(r)
    \/ SellDeleteHolding(r)
    \/ AddTransaction(r)
    \/ Commit(r)

Step(r) == FetchPrice(r) \/ Trade(r)

\* every request carries one order; the requests run concurrently, and a
\* reader runs beside them
Arrive(r) ==
    /\ req[r].pc = "idle"
    /\ NewOrder(r, Cardinality(Requests))

Next ==
    \/ \E r \in Requests : Arrive(r) \/ Step(r)
    \/ ReadAccount

Spec == Init /\ [][Next]_vars

\* one request at a time: an order arrives when the one before has ended
NextSeq ==
    \/ NewOrder(First, MaxOrders)
    \/ Step(First)

SpecSeq == InitFresh /\ [][NextSeq]_vars

\* one request at a time, with the clock running
NextTimed ==
    \/ NewOrder(First, MaxOrders)
    \/ Step(First)
    \/ Tick

SpecTimed == InitFresh /\ [][NextTimed]_vars

\* the worked example of the spec: an account with 100000 cents and no
\* holding; orders of 10 shares (and of 5, a part of them) meet the quotes
\* 150.00, 50.00 and 60.00, given in tenths of a cent
ScenarioQuotes == {150000, 50000, 60000}
ScenarioQuantities == {5, 10}

InitScenario ==
    /\ accounts = <<[id |-> User, value |-> 100000, cash |-> 100000,
                     change |-> 0]>>
    /\ holdings = <<>>
    /\ transactions = <<>>
    /\ uuids = 0
    /\ accountWrites = 0
    /\ Quiet

ScenarioOrder == NewOrderOf(First, MaxOrders, Sides, ScenarioQuantities)

ScenarioPrice == FetchPriceFrom(First, ScenarioQuotes)

NextScenario ==
    \/ ScenarioOrder
    \/ ScenarioPrice
    \/ Trade(First)

SpecScenario == InitScenario /\ [][NextScenario]_vars

\* orders of large quantities at a large price: a quote of 655.36 (65536
\* cents) times 65536 shares is 2^32 cents, times 65535 shares 2^32 - 65536
LargeQuotes == {655360}
LargeQuantities == {1, 65535, 65536}

LargeOrder == NewOrderOf(First, MaxOrders, Sides, LargeQuantities)

LargePrice == FetchPriceFrom(First, LargeQuotes)

NextLarge ==
    \/ LargeOrder
    \/ LargePrice
    \/ Trade(First)

SpecLarge == InitFresh /\ [][NextLarge]_vars

----------------------------------------------------------------------------
(* finnhub.rs: fetch_stock_price.  The guard of the CACHE mutex lives from *)
(* the lock to the return, across the two awaits of the upstream call.     *)

\* a call for a symbol with no entry begins while another lookup for the
\* same symbol is in progress
Overlaps(k, symbol) ==
    /\ ~cache[symbol].present
    /\ \E j \in LookupIds \ {k} :
          lookup[j].pc \in {"lock", "send"} /\ lookup[j].symbol = symbol

\* a caller enters fetch_stock_price: Instant::now() is read before the lock
CallPriceOf(k, track) ==
    /\ lookup[k].pc \in {"idle", "done"}
    /\ lookups < MaxLookups
    /\ \E symbol \in CacheSymbols :
          lookup' = [lookup EXCEPT ![k] =
                       [IdleLookup EXCEPT !.pc = "lock", !.symbol = symbol,
                                          !.at = instant,
                                          !.overlap =
                                              track /\ Overlaps(k, symbol)]]
    /\ lookups' = lookups + 1
    /\ UNCHANGED <<cache, cacheLock, instant, ticks, upstreamCalls, stores>>
    /\ UNCHANGED <<tradeVars, loginVars, valVars>>

CallPrice(k) == CallPriceOf(k, FALSE)

\* CACHE.lock().await, then the check of the entry: a valid entry is
\* answered at once (the guard is dropped), otherwise the request is sent
LockAndCheck(k) ==
    /\ lookup[k].pc = "lock"
    /\ MutexFree(cacheLock)
    /\ LET q == lookup[k]
           e == cache[q.symbol]
       IN  IF e.present /\ StillValid(q.at, e.timestamp)
           THEN /\ lookup' = [lookup EXCEPT ![k] =
                                [q EXCEPT !.pc = "done", !.seen = e,
                                          !.result = OkQuote(e.quote),
                                          !.after = e]]
                /\ UNCHANGED <<cacheLock, upstreamCalls>>
           ELSE /\ lookup' = [lookup EXCEPT ![k] =
                                [q EXCEPT !.pc = "send", !.seen = e,
                                          !.fetched = TRUE]]
                /\ cacheLock' = k
                /\ upstreamCalls' =
                      [upstreamCalls EXCEPT ![q.symbol] = @ + 1]
    /\ UNCHANGED <<cache, instant, ticks, lookups, stores>>
    /\ UNCHANGED <<tradeVars, loginVars, valVars>>

\* CLIENT.get(&url).send().await, the status, response.json().await, the
\* check of quote.c, cache.insert, and the return that drops the guard
UpstreamAnswerFrom(k, answers) ==
    /\ lookup[k].pc = "send"
    /\ \E answer \in answers :
          LET q == lookup[k]
              good == answer.kind = "quote" /\ ~InvalidPrice(answer.quote.c)
              entry == IF good THEN Entry(answer.quote, q.at)
                       ELSE cache[q.symbol]
          IN  /\ cache' = [cache EXCEPT ![q.symbol] = entry]
              /\ stores' = IF good THEN [stores EXCEPT ![q.symbol] = @ + 1]
                           ELSE stores
              /\ lookup' = [lookup EXCEPT ![k] =
                              [q EXCEPT !.pc = "done",
                                        !.answer = answer,
                                        !.result = IF good
                                                   THEN OkQuote(answer.quote)
                                                   ELSE UpstreamFailed(q.seen),
                                        !.after = entry]]
    /\ cacheLock' = ""
    /\ UNCHANGED <<instant, ticks, lookups, upstreamCalls>>
    /\ UNCHANGED <<tradeVars, loginVars, valVars>>

UpstreamAnswer(k) == UpstreamAnswerFrom(k, UpstreamAnswers)

\* the monotonic clock advances
CacheTick ==
    /\ ticks < MaxTicks
    /\ \E d \in TickSteps : instant' = instant + d
    /\ ticks' = ticks + 1
    /\ UNCHANGED <<cache, cacheLock, lookup, lookups, upstreamCalls, stores>>
    /\ UNCHANGED <<tradeVars, loginVars, valVars>>

NextCache ==
    \/ \E k \in LookupIds : CallPrice(k) \/ LockAndCheck(k) \/ UpstreamAnswer(k)
    \/ CacheTick

SpecCache == InitFresh /\ [][NextCache]_vars

\* the same lookups with the overlap of the calls recorded, the upstream
\* answering one quote or failing
FlightAnswers ==
    {a \in UpstreamAnswers : a.kind = "transport" \/ a.quote.c = 10}

TrackedCall(k) == CallPriceOf(k, TRUE)

FlightAnswer(k) == UpstreamAnswerFrom(k, FlightAnswers)

NextFlight ==
    \/ \E k \in LookupIds : TrackedCall(k) \/ LockAndCheck(k) \/ FlightAnswer(k)
    \/ CacheTick

SpecFlight == InitFresh /\ [][NextFlight]_vars

----------------------------------------------------------------------------
(* auth.rs: handle_google_callback, one action per store call.             *)

\* the code is exchanged for a token and the user info is read (both
\* unwrapped); the identity is known when both succeed
LoginArrives(l) ==
    /\ login[l].pc \in {"idle", "done"}
    /\ logins < MaxLogins
    /\ \E ok \in BOOLEAN, email \in LoginEmails :
          login' = [login EXCEPT ![l] =
                      IF ok
                      THEN [IdleLogin EXCEPT !.pc = "get_account",
                                             !.email = email]
                      ELSE [IdleLogin EXCEPT !.pc = "done",
                                             !.outcome = "Panicked"]]
    /\ logins' = logins + 1
    /\ UNCHANGED <<tradeVars, cacheVars, valVars>>

\* pool.get_account(..).await.unwrap_or_default().unwrap_or_default(): an
\* error of the store and a missing row both give Account::default()
LoginGetAccount(l) ==
    /\ login[l].pc = "get_account"
    /\ \E ok \in StoreOutcomes :
          LET q == login[l]
              a == IF ok THEN get_account(accounts, q.email) ELSE NoAccount
          IN  /\ login' = [login EXCEPT ![l] =
                              [q EXCEPT !.account = a,
                                        !.pc = IF a.id = "" THEN "add_account"
                                               ELSE "session"]]
              /\ faultsLeft' = IF ok THEN faultsLeft ELSE faultsLeft - 1
    /\ UNCHANGED <<accounts, holdings, transactions, req, now, uuids, orders,
                   effects, pre, readVer, stale, accountWrites, broken,
                   unlogged, observed, logins>>
    /\ UNCHANGED <<cacheVars, valVars>>

\* pool.add_account(Account {..}).await.unwrap()
LoginAddAccount(l) ==
    /\ login[l].pc = "add_account"
    /\ \E ok \in StoreOutcomes :
          LET q == login[l]
          IN  /\ login' = [login EXCEPT ![l] =
                              IF ok THEN [q EXCEPT !.pc = "session"]
                              ELSE [q EXCEPT !.pc = "done",
                                             !.outcome = "Panicked"]]
              /\ accounts' = IF ok
                             THEN add_account(accounts, NewAccount(q.email))
                             ELSE accounts
              /\ faultsLeft' = IF ok THEN faultsLeft ELSE faultsLeft - 1
    /\ UNCHANGED <<holdings, transactions, req, now, uuids, orders, effects,
                   pre, readVer, stale, accountWrites, broken, unlogged,
                   observed, logins>>
    /\ UNCHANGED <<cacheVars, valVars>>

\* session.insert("SESSION", ..): an error is logged; then the redirect
LoginSession(l) ==
    /\ login[l].pc = "session"
    /\ login' = [login EXCEPT ![l] =
                    [@ EXCEPT !.pc = "done", !.outcome = "Redirected"]]
    /\ UNCHANGED <<tradeVars, cacheVars, valVars, logins>>

NextLogin ==
    \E l \in LoginIds :
        \/ LoginArrives(l)
        \/ LoginGetAccount(l)
        \/ LoginAddAccount(l)
        \/ LoginSession(l)

SpecLogin == Init /\ [][NextLogin]_vars

----------------------------------------------------------------------------
(* handlers/portfolio.rs: get_portfolio, one action per await.             *)

\* GET /portfolio arrives while no order is in progress; the session is read
ValArrives ==
    /\ val.pc \in {"idle", "done"}
    /\ ~Active(First)
    /\ orders < MaxOrders
    /\ \E email \in SessionEmails :
          val' = IF email = ""
                 THEN [ValError(IdleVal, 401) EXCEPT !.seq = orders + 1,
                                                     !.pre = Ledger]
                 ELSE [IdleVal EXCEPT !.pc = "select", !.s = email,
                                      !.seq = orders + 1, !.pre = Ledger]
    /\ orders' = orders + 1
    /\ UNCHANGED <<accounts, holdings, transactions, req, now, uuids,
                   faultsLeft, effects, pre, readVer, stale, accountWrites,
                   broken, unlogged, observed>>
    /\ UNCHANGED <<cacheVars, loginVars>>

\* pool.0.lock(), conn.prepare(..), stmt.query_map(..): the holdings are read
ValSelect ==
    /\ val.pc = "select"
    /\ \E ok \in StoreOutcomes :
          LET rows == select_holdings(holdings, val.s)
          IN  /\ val' = IF ~ok THEN ValError(val, 500)
                        ELSE [val EXCEPT !.rows = rows, !.i = 1,
                                         !.pc = IF rows = <<>> THEN "update"
                                                ELSE "price"]
              /\ faultsLeft' = IF ok THEN faultsLeft ELSE faultsLeft - 1
    /\ UNCHANGED <<accounts, holdings, transactions, req, now, uuids, orders,
                   effects, pre, readVer, stale, accountWrites, broken,
                   unlogged, observed>>
    /\ UNCHANGED <<cacheVars, loginVars>>

\* fetch_stock_price(&holding.stock_symbol) for the next holding, and the
\* HoldingResponse built from the quote
ValFetchPrice ==
    /\ val.pc = "price"
    /\ \E ok \in BOOLEAN, quote \in ValQuotes :
          LET holding == val.rows[val.i]
              price == ToCents(quote.c)
              total_value == MulI32(price, holding.quantity)
              shown == [holding EXCEPT
                          !.current_price = price,
                          !.day_change = ToCents(quote.d),
                          !.day_change_percent = ToCents(quote.dp),
                          !.total_value = total_value]
          IN  val' = IF ~ok THEN ValPriceFailed(val)
                     ELSE ValAdvance(
                            [val EXCEPT
                               !.sum_of_total_values = AddI32(@, total_value),
                               !.updated_holdings = Append(@, shown)])
    /\ UNCHANGED <<tradeVars, cacheVars, loginVars>>

\* conn.execute("UPDATE accounts SET value = cash + ? WHERE id = ?"), then
\* the 200 with the holdings
ValUpdate ==
    /\ val.pc = "update"
    /\ \E ok \in StoreOutcomes :
          /\ val' = IF ~ok THEN ValError(val, 500)
                    ELSE [val EXCEPT !.pc = "done", !.status = 200,
                                     !.response = val.updated_holdings]
          /\ accounts' = IF ok
                         THEN set_value(accounts, val.s, val.sum_of_total_values)
                         ELSE accounts
          /\ faultsLeft' = IF ok THEN faultsLeft ELSE faultsLeft - 1
    /\ UNCHANGED <<holdings, transactions, req, now, uuids, orders, effects,
                   pre, readVer, stale, accountWrites, broken, unlogged,
                   observed>>
    /\ UNCHANGED <<cacheVars, loginVars>>

\* an order arrives while no valuation is in progress
ValOrder ==
    /\ val.pc \in {"idle", "done"}
    /\ NewOrderOf(First, MaxOrders, Sides, ValQuantities)

\* orders and valuations of one account, one request at a time
NextVal ==
    \/ ValOrder
    \/ Step(First)
    \/ ValArrives
    \/ ValSelect
    \/ ValFetchPrice
    \/ ValUpdate

SpecVal == Init /\ [][NextVal]_vars

----------------------------------------------------------------------------
(* What the claims speak of.                                               *)

Done(r) == req[r].pc = "done"
Committed(r) == Done(r) /\ req[r].outcome = "Committed"
RejectedWith(r, status, msg) ==
    Done(r) /\ req[r].outcome = "Rejected" /\ req[r].status = status
            /\ req[r].msg = msg

Cash(rows) == get_account(rows, User).cash

HeldQuantity(rows, stock_symbol) ==
    IF has_holding(rows, User, stock_symbol)
    THEN get_holding(rows, User, stock_symbol).quantity
    ELSE 0

\* the sum of price * quantity over the records of one side
RECURSIVE LogSum(_, _)
LogSum(rows, side) ==
    IF rows = <<>> THEN 0
    ELSE LogSum(Tail(rows), side)
         + (IF Head(rows).transaction_type = side
            THEN Head(rows).price * Head(rows).quantity ELSE 0)

\* the sum of quantity over the records of one side and one symbol
RECURSIVE LogQuantity(_, _, _)
LogQuantity(rows, side, stock_symbol) ==
    IF rows = <<>> THEN 0
    ELSE LogQuantity(Tail(rows), side, stock_symbol)
         + (IF /\ Head(rows).transaction_type = side
               /\ Head(rows).stock_symbol = stock_symbol
            THEN Head(rows).quantity ELSE 0)

\* the sum of quantity * purchase_price over the holdings
RECURSIVE CostBasis(_)
CostBasis(rows) ==
    IF rows = <<>> THEN 0
    ELSE CostBasis(Tail(rows)) + Head(rows).quantity * Head(rows).purchase_price

\* every order that has arrived asks for a positive number of shares
Proper == \A r \in Requests : req[r].pc = "idle" \/ req[r].quantity > 0

\* the change of cash and of the held quantity an order stands for
CashDelta(q) == IF q.side = "BUY" THEN -q.total ELSE q.total
QuantityDelta(q) == IF q.side = "BUY" THEN q.quantity ELSE -q.quantity

----------------------------------------------------------------------------
(* C1: when an order has ended, whether it was committed, rejected or died, *)
(* the ledger holds all three of its effects (cash update, holding write,  *)
(* transaction insert) or none of them.  (Orders of a positive quantity.)  *)
C1_AllOrNothing ==
    \A r \in Requests :
        (Done(r) /\ req[r].quantity > 0) => effects[r] \in {{}, AllEffects}

(* C2: two concurrent buys on one account that read the same cash, each    *)
(* affordable alone and not affordable together, never both end Committed. *)
C2_NeverBothCommitted ==
    \A r1, r2 \in Requests :
        (/\ r1 # r2
         /\ Proper
         /\ req[r1].side = "BUY" /\ req[r2].side = "BUY"
         /\ req[r1].loads > 0 /\ req[r2].loads > 0
         /\ readVer[r1] = readVer[r2]
         /\ req[r1].total <= req[r1].cash_read
         /\ req[r2].total <= req[r2].cash_read
         /\ req[r1].total + req[r2].total > req[r1].cash_read)
        => ~(Committed(r1) /\ Committed(r2))

(* C3: two orders that arrived in the same ledger state and both ended     *)
(* Committed leave the cash, the held quantity and the log that running    *)
(* them one after the other leaves.                                        *)
C3_Linearizable ==
    \A r1, r2 \in Requests :
        (r1 # r2 /\ Proper /\ Committed(r1) /\ Committed(r2) /\ pre[r1] = pre[r2])
        => /\ Cash(accounts) = Cash(pre[r1].accounts) + CashDelta(req[r1])
                                                      + CashDelta(req[r2])
           /\ \A y \in Symbols :
                 HeldQuantity(holdings, y)
                    = HeldQuantity(pre[r1].holdings, y)
                      + (IF req[r1].stock_symbol = y THEN QuantityDelta(req[r1]) ELSE 0)
                      + (IF req[r2].stock_symbol = y THEN QuantityDelta(req[r2]) ELSE 0)
           /\ Len(transactions) = Len(pre[r1].transactions) + 2

(* C4: a reader never sees some but not all of the effects of an order in  *)
(* progress: of its cash update and its holding write it sees both or      *)
(* neither.                                                                *)
C4_ReadersSeeSnapshots ==
    Proper => \A r \in Requests : observed[r] \in {{}, {"cash", "holding"}}

(* C5: an order that wrote the account row after another order had changed *)
(* it since its read ends Committed only after a second, fresh read.       *)
C5_ConflictRetriedOnce ==
    \A r \in Requests : (Proper /\ Committed(r) /\ stale[r]) => req[r].loads = 2

C7_InsufficientFundsRejected ==
    \A r \in Requests :
        (/\ Done(r) /\ req[r].side = "BUY"
         /\ req[r].loads > 0 /\ req[r].cash_read < req[r].total)
        => /\ RejectedWith(r, 400, NotEnoughCashMsg)
           /\ effects[r] = {}
           /\ (\A o \in Requests \ {r} : effects[o] = {}) => Ledger = pre[r]

C7_Witness ==
    \E r \in Requests :
        /\ RejectedWith(r, 400, NotEnoughCashMsg)
        /\ req[r].side = "BUY" /\ req[r].quantity > 0
        /\ req[r].total = req[r].cash_read + 1
        /\ Ledger = pre[r]

(* C8: a sell that read a holding with fewer shares than it asks for ends  *)
(* rejected with 400 and the more-shares-than-you-own message, and it      *)
(* wrote nothing: when no other request wrote either, accounts, holdings   *)
(* and log are what they were when the request arrived.                    *)
C8_InsufficientSharesRejected ==
    \A r \in Requests :
        (/\ Done(r) /\ req[r].side = "SELL"
         /\ req[r].held /\ req[r].current_quantity < req[r].quantity)
        => /\ RejectedWith(r, 400, NotEnoughSharesMsg)
           /\ effects[r] = {}
           /\ (\A o \in Requests \ {r} : effects[o] = {}) => Ledger = pre[r]

C8_Witness ==
    \E r \in Requests :
        /\ RejectedWith(r, 400, NotEnoughSharesMsg)
        /\ req[r].side = "SELL"
        /\ req[r].current_quantity > 0
        /\ req[r].quantity = req[r].current_quantity + 1
        /\ Ledger = pre[r]

(* C9: after a committed sell, run alone, the holding it found is gone     *)
(* when it sold as many shares as the holding had, and otherwise is the    *)
(* same row with its quantity reduced by the sold amount; every other row  *)
(* is as it was.                                                           *)
C9_SellDeletesOrReduces ==
    \A r \in Requests :
        (Committed(r) /\ req[r].side = "SELL")
        => LET q == req[r]
               rows == pre[r].holdings
               i == HoldingIndex(rows, q.s, q.stock_symbol)
           IN  /\ i > 0
               /\ IF q.quantity = rows[i].quantity
                  THEN holdings = RemoveAt(rows, i)
                  ELSE holdings = [rows EXCEPT ![i].quantity =
                                                 rows[i].quantity - q.quantity]

\* a partial sell and then a sell of all the rest, both committed
C9_Witness ==
    /\ Committed(First) /\ req[First].side = "SELL" /\ req[First].quantity = 1
    /\ holdings = <<>>
    /\ Len(transactions) = 3
    /\ transactions[1].transaction_type = "BUY" /\ transactions[1].quantity = 2
    /\ transactions[2].transaction_type = "SELL" /\ transactions[2].quantity = 1
    /\ transactions[3].transaction_type = "SELL"

(* C10: every stored holding has quantity > 0.                             *)
C10_PositiveQuantities ==
    \A i \in 1..Len(holdings) : holdings[i].quantity > 0

(* C11: the cash of every account is >= 0 in every reachable state.        *)
C11_CashNonNegative ==
    \A i \in 1..Len(accounts) : accounts[i].cash >= 0

(* C12: a committed buy of q > 0 shares at price p, run alone, on a        *)
(* holding with quantity Q > 0 and purchase price A leaves that row with   *)
(* quantity Q+q and purchase price floor((A*Q + p*q)/(Q+q)) and every other *)
(* row as it was; with no holding row it adds one row with quantity q and  *)
(* purchase price p.  After two such buys from an empty ledger the         *)
(* purchase price is floor((q1*p1 + q2*p2)/(q1+q2)).                       *)
C12_BuyWeightedAverage ==
    \A r \in Requests :
        (Committed(r) /\ req[r].side = "BUY" /\ req[r].quantity > 0)
        => LET q == req[r]
               rows == pre[r].holdings
               i == HoldingIndex(rows, q.s, q.stock_symbol)
               t == transactions
           IN  /\ i = 0 =>
                     /\ Len(holdings) = Len(rows) + 1
                     /\ \A j \in 1..Len(rows) : holdings[j] = rows[j]
                     /\ HoldingKey(q.s, q.stock_symbol, holdings[Len(holdings)])
                     /\ holdings[Len(holdings)].quantity = q.quantity
                     /\ holdings[Len(holdings)].purchase_price = q.stock_price
               /\ (i > 0 /\ rows[i].quantity > 0) =>
                     holdings =
                       [rows EXCEPT
                          ![i].quantity = rows[i].quantity + q.quantity,
                          ![i].purchase_price =
                              (rows[i].purchase_price * rows[i].quantity
                                 + q.stock_price * q.quantity)
                              \div (rows[i].quantity + q.quantity)]
               /\ (/\ ~broken /\ Len(t) = 2
                   /\ t[1].transaction_type = "BUY" /\ t[1].quantity > 0
                   /\ t[2].transaction_type = "BUY") =>
                     /\ Len(holdings) = 1
                     /\ holdings[1].quantity = t[1].quantity + t[2].quantity
                     /\ holdings[1].purchase_price =
                          (t[1].quantity * t[1].price + t[2].quantity * t[2].price)
                          \div (t[1].quantity + t[2].quantity)

\* a second buy at another price whose average is not a whole number
C12_Witness ==
    /\ Committed(First) /\ req[First].side = "BUY"
    /\ Len(transactions) = 2
    /\ transactions[1].transaction_type = "BUY"
    /\ transactions[2].transaction_type = "BUY"
    /\ transactions[1].price # transactions[2].price
    /\ Len(holdings) = 1 /\ holdings[1].quantity = 3
    /\ (transactions[1].quantity * transactions[1].price
          + transactions[2].quantity * transactions[2].price) % 3 # 0

(* C13: a committed sell, run alone, that does not sell the whole holding  *)
(* leaves the holding row with the purchase price, the symbol, the account *)
(* and the name it had; no row is added or removed.                        *)
C13_SellKeepsPurchasePrice ==
    \A r \in Requests :
        (Committed(r) /\ req[r].side = "SELL")
        => LET q == req[r]
               rows == pre[r].holdings
               i == HoldingIndex(rows, q.s, q.stock_symbol)
           IN  (i > 0 /\ q.quantity # rows[i].quantity)
               => /\ Len(holdings) = Len(rows)
                  /\ holdings[i].purchase_price = rows[i].purchase_price
                  /\ holdings[i].stock_symbol = rows[i].stock_symbol
                  /\ holdings[i].stock_name = rows[i].stock_name
                  /\ holdings[i].account_id = rows[i].account_id

\* one of two shares bought at 1 sold at 2
C13_Witness ==
    /\ Committed(First) /\ req[First].side = "SELL"
    /\ req[First].quantity = 1 /\ req[First].stock_price = 2
    /\ Len(holdings) = 1
    /\ holdings[1].quantity = 1 /\ holdings[1].purchase_price = 1

(* C14: the worked scenario, step by step, each step starting where the   *)
(* one before ended.  With cash 100000 and no holding, a buy of 10 at      *)
(* 150.00 that reads the account ends rejected for insufficient funds with *)
(* the ledger untouched, and a committed buy of 10 at 50.00 leaves cash    *)
(* 50000 and the one holding {quantity 10, purchase price 5000}; from      *)
(* there a committed sell of 10 at 60.00 leaves cash 110000, no holding    *)
(* and a log of exactly one BUY and one SELL record.                       *)
C14_WorkedScenario ==
    LET q == req[First]
        start == pre[First].holdings = <<>> /\ pre[First].transactions = <<>>
                 /\ Cash(pre[First].accounts) = 100000
        bought == /\ Cash(pre[First].accounts) = 50000
                  /\ Len(pre[First].holdings) = 1
                  /\ pre[First].holdings[1].quantity = 10
                  /\ pre[First].holdings[1].purchase_price = 5000
                  /\ Len(pre[First].transactions) = 1
                  /\ pre[First].transactions[1].transaction_type = "BUY"
    IN  /\ (/\ Done(First) /\ start /\ q.loads > 0
            /\ q.side = "BUY" /\ q.quantity = 10 /\ q.stock_price = 15000)
           => /\ RejectedWith(First, 400, NotEnoughCashMsg)
              /\ Ledger = pre[First]
        /\ (/\ Committed(First) /\ start
            /\ q.side = "BUY" /\ q.quantity = 10 /\ q.stock_price = 5000)
           => /\ Cash(accounts) = 50000
              /\ Len(holdings) = 1
              /\ holdings[1].quantity = 10 /\ holdings[1].purchase_price = 5000
              /\ Len(transactions) = 1
              /\ transactions[1].transaction_type = "BUY"
        /\ (/\ Committed(First) /\ bought
            /\ q.side = "SELL" /\ q.quantity = 10 /\ q.stock_price = 6000)
           => /\ Cash(accounts) = 110000
              /\ holdings = <<>>
              /\ Len(transactions) = 2
              /\ transactions[1].transaction_type = "BUY"
              /\ transactions[2].transaction_type = "SELL"

\* the three steps were taken one after the other
C14_Witness ==
    /\ orders = 3 /\ Committed(First) /\ ~broken
    /\ req[First].side = "SELL" /\ req[First].quantity = 10
    /\ Cash(accounts) = 110000 /\ holdings = <<>> /\ Len(transactions) = 2
    /\ transactions[1].price = 5000 /\ transactions[2].price = 6000

(* C15: a lookup that finds an entry less than 300 s older than the moment *)
(* the call was made answers the cached quote and sends nothing upstream;  *)
(* a lookup that finds an entry 300 s old or older sends a request and, on *)
(* success, leaves the entry replaced by the new quote with the time of    *)
(* the call.  While less than 300 s have passed, no symbol is stored twice. *)
C15_CacheTTL ==
    /\ \A k \in LookupIds :
          LET q == lookup[k]
          IN  (q.pc = "done" /\ q.seen.present)
              => /\ (q.at - q.seen.timestamp < PriceTTL)
                    => (~q.fetched /\ q.result = OkQuote(q.seen.quote))
                 /\ (q.at - q.seen.timestamp >= PriceTTL)
                    => /\ q.fetched
                       /\ q.result.ok
                          => q.after = Entry(q.result.quote, q.at)
    /\ \A y \in CacheSymbols : instant < PriceTTL => stores[y] <= 1

\* one lookup served from an entry 299 s old, another refetched at 300 s
C15_Witness ==
    \E k1, k2 \in LookupIds :
        /\ lookup[k1].pc = "done" /\ lookup[k2].pc = "done"
        /\ lookup[k1].symbol = lookup[k2].symbol
        /\ lookup[k1].seen.present /\ ~lookup[k1].fetched
        /\ lookup[k1].at - lookup[k1].seen.timestamp = PriceTTL - 1
        /\ lookup[k2].seen.present /\ lookup[k2].fetched
        /\ lookup[k2].at - lookup[k2].seen.timestamp = PriceTTL
        /\ lookup[k2].result.ok
        /\ lookup[k2].result.quote # lookup[k2].seen.quote
        /\ upstreamCalls[lookup[k1].symbol] = 2

(* C16: every entry of the price cache has a current price > 0; a lookup   *)
(* whose upstream answer carries a price <= 0 answers an error and leaves  *)
(* the entry of its symbol as it found it.                                 *)
C16_OnlyPositivePricesCached ==
    /\ \A y \in CacheSymbols : cache[y].present => cache[y].quote.c > 0
    /\ \A k \in LookupIds :
          LET q == lookup[k]
          IN  (q.pc = "done" /\ q.fetched /\ q.answer.kind = "quote"
                             /\ q.answer.quote.c <= 0)
              => (~q.result.ok /\ q.after = q.seen)

\* a price of 0 was refused while the cache held a quote of another symbol
C16_Witness ==
    \E k \in LookupIds :
        /\ lookup[k].pc = "done" /\ lookup[k].fetched
        /\ lookup[k].answer.kind = "quote" /\ lookup[k].answer.quote.c = 0
        /\ ~cache[lookup[k].symbol].present
        /\ \E y \in CacheSymbols : cache[y].present

(* C17: a lookup that finds an expired entry and whose upstream call fails *)
(* (transport error, bad status, unparsable body, price <= 0) answers an   *)
(* error, not the expired quote, and leaves the entry as it was, expired.  *)
C17_NoFallbackToStale ==
    \A k \in LookupIds :
        LET q == lookup[k]
        IN  (/\ q.pc = "done" /\ q.fetched /\ q.seen.present
             /\ \/ q.answer.kind # "quote"
                \/ q.answer.quote.c <= 0)
            => /\ ~q.result.ok
               /\ q.after = q.seen
               /\ q.at - q.after.timestamp >= PriceTTL

C17_Witness ==
    \E k \in LookupIds :
        /\ lookup[k].pc = "done" /\ lookup[k].fetched /\ lookup[k].seen.present
        /\ lookup[k].answer.kind = "status"
        /\ cache[lookup[k].symbol] = lookup[k].seen
        /\ instant - lookup[k].seen.timestamp >= PriceTTL

(* C18: no identity ever has more than one account row; an identity whose  *)
(* login callback has ended with the redirect has exactly one, and the     *)
(* rows that existed before the logins are as they were.                   *)
C18_LoginIdempotent ==
    /\ \A e \in LoginEmails :
          Cardinality({i \in 1..Len(accounts) : accounts[i].id = e}) <= 1
    /\ \A l \in LoginIds :
          (login[l].pc = "done" /\ login[l].outcome = "Redirected")
          => /\ has_account(accounts, login[l].email)
             /\ login[l].email # User
                => get_account(accounts, login[l].email)
                     = NewAccount(login[l].email)

\* the sum of current_price * quantity over the answered holdings
RECURSIVE MarketValue(_)
MarketValue(rows) ==
    IF rows = <<>> THEN 0
    ELSE MarketValue(Tail(rows)) + Head(rows).current_price * Head(rows).quantity

\* the valuation has ended and no request came after it
ValuationEnded == val.pc = "done" /\ val.seq = orders

(* C19: when a valuation for which every price lookup succeeded has ended  *)
(* with 200, the account's value is its cash plus the sum of price *       *)
(* quantity over the holdings of the account, one answered holding stands  *)
(* for each holding row with total value = price * quantity, and the cash, *)
(* the holdings and the log are what they were before the valuation.       *)
C19_ValuationSetsValue ==
    (ValuationEnded /\ val.status = 200)
    => LET a == get_account(accounts, val.s)
           mine == select_holdings(holdings, val.s)
           shown == val.response
       IN  /\ a.value = a.cash + MarketValue(shown)
           /\ Len(shown) = Len(mine)
           /\ \A i \in 1..Len(shown) :
                 /\ shown[i].stock_symbol = mine[i].stock_symbol
                 /\ shown[i].quantity = mine[i].quantity
                 /\ shown[i].purchase_price = mine[i].purchase_price
                 /\ shown[i].total_value
                      = shown[i].current_price * shown[i].quantity
           /\ a.cash = get_account(val.pre.accounts, val.s).cash
           /\ holdings = val.pre.holdings
           /\ transactions = val.pre.transactions

\* a holding of 4 shares bought at 1 is valued at 2 a share
C19_Witness ==
    /\ ValuationEnded /\ val.status = 200
    /\ Len(val.response) = 1
    /\ val.response[1].quantity = 4
    /\ val.response[1].current_price = 2
    /\ val.response[1].purchase_price = 1
    /\ get_account(accounts, val.s).value
          # get_account(val.pre.accounts, val.s).value

(* C20: when a price lookup of a valuation failed, the valuation has ended *)
(* with an error that carries no holdings, and the account rows are what   *)
(* they were before the valuation.                                         *)
C20_FailedLookupAbortsValuation ==
    (val.price_failed /\ val.seq = orders)
    => /\ val.pc = "done"
       /\ val.status = 500
       /\ val.response = <<>>
       /\ accounts = val.pre.accounts

\* the lookup failed for the second of two holding rows
C20_Witness ==
    /\ ValuationEnded /\ val.price_failed
    /\ Len(val.rows) = 2 /\ val.i = 2
    /\ Len(val.updated_holdings) = 1
    /\ accounts = val.pre.accounts

\* ---------------------------------------------------------------------------
\* C21: the transaction record returned to the caller of a committed order
\* equals the record persisted in the log in every field (id, account, symbol,
\* side, quantity, price, timestamp), also when the clock advances while the
\* order is processed.
C21_ReturnedRecordIsPersisted ==
    \A r \in Requests :
        (Committed(r) /\ req[r].quantity > 0) =>
            \E i \in 1..Len(transactions) : transactions[i] = req[r].transaction

\* ---------------------------------------------------------------------------
\* C22: the transaction log is append-only and matches the outcomes.  Every
\* order that ends Committed has added exactly one record, with an id no
\* other record carries and the side, quantity and price of the order; every
\* order that ends Rejected has added none; and no step modifies or deletes
\* a record that is already in the log.
C22_LogAppendOnly ==
    /\ [](\A r \in Requests :
            /\ Committed(r) =>
                  /\ transactions =
                        Append(pre[r].transactions,
                               transactions[Len(transactions)])
                  /\ LET t == transactions[Len(transactions)]
                     IN  /\ t.id = req[r].transaction.id
                         /\ \A i \in 1..Len(pre[r].transactions) :
                               pre[r].transactions[i].id # t.id
                         /\ t.account_id = req[r].s
                         /\ t.stock_symbol = req[r].stock_symbol
                         /\ t.transaction_type = req[r].side
                         /\ t.quantity = req[r].quantity
                         /\ t.price = req[r].stock_price
            /\ (Done(r) /\ req[r].outcome = "Rejected") =>
                  transactions = pre[r].transactions)
    /\ [][/\ Len(transactions') \in {Len(transactions), Len(transactions) + 1}
          /\ \A i \in 1..Len(transactions) :
                transactions'[i] = transactions[i]]_vars

\* a second order is committed on a log that already holds a record
C22_Witness ==
    /\ Committed(First)
    /\ Len(pre[First].transactions) >= 1
    /\ Len(transactions) = Len(pre[First].transactions) + 1

\* ---------------------------------------------------------------------------
\* C23: after any sequence of orders of positive quantities run one after the
\* other, the ledger can be re-derived from the log: the cash equals the
\* starting cash minus the sum of price * quantity of the BUY records plus
\* that of the SELL records, and for every symbol the held quantity (0 when
\* there is no row) equals the BUY quantities minus the SELL quantities.
C23_LedgerFromLog ==
    ((\A r \in Requests : ~Active(r)) /\ Proper)
    => /\ Cash(accounts)
            = InitCash - LogSum(transactions, "BUY")
                       + LogSum(transactions, "SELL")
       /\ \A stock_symbol \in Symbols :
             HeldQuantity(holdings, stock_symbol)
                = LogQuantity(transactions, "BUY", stock_symbol)
                  - LogQuantity(transactions, "SELL", stock_symbol)

\* ---------------------------------------------------------------------------
\* C24: a sell of a symbol for which the account has no holding row, with no
\* store failure, ends Rejected (an error answer with the insufficient-shares
\* reason), with the store transaction aborted and accounts, holdings and
\* log as they were when the order arrived.
C24_SellWithoutHoldingRejected ==
    \A r \in Requests :
        (/\ Done(r) /\ req[r].side = "SELL" /\ req[r].loads > 0
         /\ faultsLeft = MaxFaults
         /\ ~has_holding(pre[r].holdings, req[r].s, req[r].stock_symbol))
        => /\ req[r].outcome = "Rejected"
           /\ req[r].txn = "aborted"
           /\ Ledger = pre[r]

\* ---------------------------------------------------------------------------
\* C25: an order whose account read finds no row or fails (the order has
\* started its store transaction and has ended without an account loaded)
\* ends Rejected, with an error answer, and has written nothing.
C25_AccountNotFoundRejected ==
    \A r \in Requests :
        (Done(r) /\ req[r].txn # "none" /\ req[r].loads = 0)
        => /\ req[r].outcome = "Rejected"
           /\ req[r].status # 0
           /\ effects[r] = {}
           /\ Ledger = pre[r]

\* ---------------------------------------------------------------------------
\* C26: the price lookup is the first step of every authenticated order and
\* comes before every access to the ledger: while an order waits for its
\* price it has opened no store transaction, read nothing and written
\* nothing, and an order with a store transaction has its price.  An order
\* whose price lookup failed ends Rejected without a store transaction, a
\* read or a write.  The one price is the recorded unit price and the base
\* of the cash change: the cash change of a committed order equals the
\* recorded price times the recorded quantity (the i32 product the handler
\* computes).
C26_PriceFirstAndSingle ==
    \A r \in Requests :
        /\ req[r].pc = "price" =>
              /\ req[r].txn = "none" /\ req[r].loads = 0
              /\ effects[r] = {} /\ Ledger = pre[r]
        /\ (req[r].txn # "none" \/ req[r].loads > 0 \/ effects[r] # {}) =>
              req[r].stock_price > 0
        /\ (Done(r) /\ req[r].s # "" /\ req[r].stock_price = 0) =>
              /\ req[r].outcome = "Rejected"
              /\ req[r].txn = "none" /\ req[r].loads = 0
              /\ effects[r] = {} /\ Ledger = pre[r]
        /\ Committed(r) =>
              LET t == transactions[Len(transactions)]
              IN  /\ t.price = req[r].stock_price
                  /\ t.quantity = req[r].quantity
                  /\ SubI32(Cash(accounts), Cash(pre[r].accounts))
                        = IF req[r].side = "BUY"
                          THEN NegI32(MulI32(t.price, t.quantity))
                          ELSE MulI32(t.price, t.quantity)

\* a buy of two shares at price 2 is committed and has lowered the cash by 4
C26_Witness ==
    /\ Committed(First) /\ req[First].side = "BUY"
    /\ req[First].quantity = 2 /\ req[First].stock_price = 2
    /\ Cash(accounts) = Cash(pre[First].accounts) - 4

\* ---------------------------------------------------------------------------
\* C27: the buy validation compares the cash with the exact product of price
\* and quantity: a buy of a positive quantity whose mathematical cost
\* price * quantity exceeds the cash it read (quantity > cash \div price) is
\* rejected for lack of cash, also when the product lies outside the i32
\* range; no such buy is committed and none increases the cash (no store
\* call failing).
C27_ExactCostValidation ==
    \A r \in Requests :
        (/\ Done(r) /\ req[r].side = "BUY" /\ req[r].loads > 0
         /\ req[r].stock_price > 0 /\ req[r].quantity > 0
         /\ req[r].quantity > req[r].cash_read \div req[r].stock_price
         /\ faultsLeft = MaxFaults)
        => /\ RejectedWith(r, 400, NotEnoughCashMsg)
           /\ Cash(accounts) <= Cash(pre[r].accounts)

\* ---------------------------------------------------------------------------
\* C28: the cache tolerates concurrent lookups.  Every lookup that answers a
\* quote answers either the quote of the successful upstream response it
\* received itself or the quote of the entry it found, and every entry has
\* been stored by a lookup for that symbol from the successful response it
\* received, with the time of that call: each step that changes the entry
\* of a symbol is the return of such a lookup, leaves one entry for the
\* symbol and leaves the entries of the other symbols as they were.
C28_ConcurrentLookups ==
    /\ [](\A k \in LookupIds :
            LET q == lookup[k]
            IN  (q.pc = "done" /\ q.result.ok)
                => IF q.fetched
                   THEN /\ q.answer.kind = "quote" /\ q.answer.quote.c > 0
                        /\ q.result.quote = q.answer.quote
                        /\ cache[q.symbol].present
                   ELSE /\ q.seen.present
                        /\ q.result.quote = q.seen.quote)
    /\ [][\A y \in CacheSymbols :
            cache'[y] # cache[y]
            => /\ \E k \in LookupIds :
                     /\ lookup[k].pc = "send" /\ lookup'[k].pc = "done"
                     /\ lookup[k].symbol = y
                     /\ lookup'[k].answer.kind = "quote"
                     /\ cache'[y].present
                     /\ cache'[y].quote = lookup'[k].answer.quote
                     /\ cache'[y].timestamp = lookup[k].at
               /\ \A z \in CacheSymbols \ {y} : cache'[z] = cache[z]]_vars

\* two lookups for one symbol overlap during a miss: the one that called
\* first waited for the other, which stored the quote both answer
C28_Witness ==
    \E k1, k2 \in LookupIds :
        /\ lookup[k1].pc = "done" /\ lookup[k2].pc = "done"
        /\ lookup[k1].symbol = lookup[k2].symbol
        /\ lookup[k1].fetched /\ ~lookup[k1].seen.present
        /\ lookup[k1].result.ok
        /\ lookup[k2].at < lookup[k1].at
        /\ ~lookup[k2].fetched
        /\ lookup[k2].result = lookup[k1].result
        /\ cache[lookup[k1].symbol].timestamp = lookup[k1].at
        /\ \E z \in CacheSymbols : z # lookup[k1].symbol /\ cache[z].present

\* ---------------------------------------------------------------------------
\* C29: the lock of the cache is taken before the check and held until the
\* return, across the upstream call: of the concurrent lookups for the same
\* uncached symbol with a successful upstream exactly one issues an upstream
\* call, that is, a lookup that began while another lookup for its symbol,
\* which had no entry, was in progress, and that finds an entry when it has
\* the lock, issues no upstream call of its own.
C29_OneCallPerMiss ==
    \A k \in LookupIds :
        (lookup[k].pc = "done" /\ lookup[k].overlap /\ lookup[k].seen.present)
        => ~lookup[k].fetched

\* C29, amended: at most one upstream request is in flight and its lookup
\* holds the lock; while one is in flight no other lookup, for whatever
\* symbol, gets past the lock; a lookup that began while another lookup for
\* its uncached symbol was in progress and that finds an entry whose call
\* began less than the TTL before its own issues no upstream call; and
\* while every upstream answer for a symbol has been a success and less than
\* the TTL has passed, at most one upstream call for it has been issued.
C29_LockAcrossUpstream ==
    /\ [](/\ Cardinality({k \in LookupIds : lookup[k].pc = "send"}) <= 1
          /\ \A k \in LookupIds : lookup[k].pc = "send" => cacheLock = k
          /\ \A k \in LookupIds :
                (/\ lookup[k].pc = "done" /\ lookup[k].overlap
                 /\ lookup[k].seen.present
                 /\ lookup[k].at - lookup[k].seen.timestamp < PriceTTL)
                => ~lookup[k].fetched
          /\ \A y \in CacheSymbols :
                LET inflight == Cardinality({k \in LookupIds :
                                   lookup[k].pc = "send" /\ lookup[k].symbol = y})
                IN  (instant < PriceTTL
                     /\ upstreamCalls[y] - inflight = stores[y])
                    => upstreamCalls[y] <= 1)
    /\ [][\A j \in LookupIds :
            (/\ lookup[j].pc = "lock"
             /\ \E k \in LookupIds \ {j} : lookup[k].pc = "send")
            => lookup'[j].pc = "lock"]_vars

\* two lookups for one uncached symbol overlapped: the one that called
\* later waited for the other, and only one upstream call was made
C29_Witness ==
    \E k1, k2 \in LookupIds :
        /\ lookup[k1].pc = "done" /\ lookup[k2].pc = "done"
        /\ lookup[k1].symbol = lookup[k2].symbol
        /\ lookup[k1].fetched /\ lookup[k1].result.ok
        /\ lookup[k2].at > lookup[k1].at
        /\ lookup[k2].overlap /\ lookup[k2].seen.present
        /\ ~lookup[k2].fetched /\ lookup[k2].result.ok
        /\ upstreamCalls[lookup[k1].symbol] = 1
        /\ stores[lookup[k1].symbol] = 1

\* ---------------------------------------------------------------------------
\* C30: in every reachable state there is at most one holding row per
\* (account, symbol), for every interleaving of orders of positive
\* quantities (the rows of zero and negative quantities set aside).
C30_OneRowPerSymbol ==
    (Proper /\ \A i \in 1..Len(holdings) : holdings[i].quantity > 0)
    => \A i, j \in 1..Len(holdings) :
          (/\ holdings[i].account_id = holdings[j].account_id
           /\ holdings[i].stock_symbol = holdings[j].stock_symbol)
          => i = j

====
